---------------------------- MODULE Spec2Model ----------------------------
(***************************************************************************)
(* Model of prometheus_raritan_pdu_exporter/structures.py: the PDU entity  *)
(* graph (Connector, Pole, Sensor), discovery (crawl), polling             *)
(* (read_sensors) and the null-sensor diagnostics (DebugNullSensors).      *)
(*                                                                         *)
(* Conventions                                                             *)
(*  - Python None is the string "None"; optional scalar fields (value,     *)
(*    timestamp, name, socket, longname) hold strings so that a field can  *)
(*    be compared with None.  Readings and timestamps are opaque to the    *)
(*    program (it only stores them and tests a value for None), so they    *)
(*    are tokens: "1.5", "w1" (a time.time() reading), "d1" (a device      *)
(*    timestamp).                                                          *)
(*  - A Python list is a sequence.  Python positions are 0-based: the      *)
(*    element at Python position k of list l is l[k + 1].                  *)
(*  - A rid is the sequence of its '/'-separated segments.                 *)
(*  - A JSON-RPC id is [t |-> "int", v |-> n] or [t |-> "str", v |-> s].   *)
(*                                                                         *)
(* Specifications                                                          *)
(*  - SpecCrawl: calls of crawl on a new PDU, exchange by exchange.        *)
(*  - Spec: clear_sensors and read_sensors on a discovered PDU.            *)
(*  - SpecReader: a poll cycle write by write, with a concurrent reader.   *)
(*  - SpecDiag: poll cycles with the null-sensor diagnostics active.       *)
(*  - SpecLabel: Connector.update on a new connector.                      *)
(*  - SpecDiff: DebugNullSensors.diff on two snapshots.                    *)
(*  - SpecMetric: Metric.__init__ and Metric.add on discovered sensors.    *)
(*  - SpecMeta: one crawl whose sensor-metadata answer may be partial.     *)
(*  - SpecPoles: one crawl of a PDU with two inlets.                       *)
(*  - SpecUpdate: Sensor.update on a new sensor.                           *)
(*  - SpecNew: PDU.__init__ on an address and a display name.              *)
(*  - SpecLevel: poll cycles while the logger's level changes.             *)
(***************************************************************************)
EXTENDS Integers, Sequences, FiniteSets, TLC

None == "None"

\* ------------------------------------------------------------------ bounds
\* longest batch of sub-responses the transport returns to one poll
MaxResp == 2

\* calls of crawl on one PDU object
MaxCrawls == 2

\* calls of Connector.update on one connector
MaxUpdates == 3

\* entries of one null-sensor snapshot
MaxSnap == 2

\* sensors added to one Metric
MaxAdds == 4

\* metadata answers applied to one sensor
MaxMeta == 2

\* PDU objects constructed one after another
MaxNew == 2

\* ------------------------------------------------------- logging constants
NOTSET == 0
DEBUG == 10
INFO == 20

\* ------------------------------------------------------ generic operators
Last(s) == s[Len(s)]

Range(s) == {s[i] : i \in DOMAIN s}

\* all sequences over S of length at most n
RECURSIVE SeqsUpTo(_, _)
SeqsUpTo(S, n) ==
    IF n = 0 THEN {<<>>}
    ELSE LET shorter == SeqsUpTo(S, n - 1)
         IN  shorter \cup {Append(q, x) : q \in {r \in shorter : Len(r) = n - 1}, x \in S}

\* all orderings (lists without repetition) of the finite set S
RECURSIVE Orderings(_)
Orderings(S) ==
    IF S = {} THEN {<<>>}
    ELSE UNION {{<<x>> \o q : q \in Orderings(S \ {x})} : x \in S}

\* f(... f(f(acc, s[1]), s[2]) ..., s[n]): a for loop over the list s
RECURSIVE FoldSeq(_, _, _)
FoldSeq(f(_, _), acc, s) ==
    IF s = <<>> THEN acc ELSE FoldSeq(f, f(acc, Head(s)), Tail(s))

IntId(n) == [t |-> "int", v |-> n]
StrId(s) == [t |-> "str", v |-> s]

\* ------------------------------------------------------ globals (globals.py)
SENSORS_NUMERIC == {"sensors.NumericSensor"}
SENSORS_STATE == {"sensors.StateSensor"}

\* code -> name, code 0 first
SENSORS_TYPES == <<"unspecified", "voltage", "current", "activePower">>
SENSORS_UNITS == <<"none", "volt", "ampere", "watt">>

\* ------------------------------------------------------------ Python helpers
\* int(x) of a JSON id: an int is itself, a string is parsed as a decimal
\* literal and anything else raises ValueError
IntLiterals == {"0", "1", "2"}

int_ok(id) == id.t = "int" \/ id.v \in IntLiterals

int(id) ==
    IF id.t = "int" THEN id.v
    ELSE CASE id.v = "0" -> 0 [] id.v = "1" -> 1 [] id.v = "2" -> 2

\* l[k] on a list of length n: positions -n .. n-1 exist, a negative k counts
\* from the end, any other k raises IndexError
index_ok(n, k) == -n <= k /\ k < n

index_pos(n, k) == IF k >= 0 THEN k + 1 ELSE n + k + 1

\* the truth value of a string
truthy(x) == x # None /\ x # ""

\* ------------------------------------------------------------------ state
VARIABLES
    heap,                \* every Connector object constructed so far
    connectors,          \* PDU.connectors: references (positions in heap)
    poles,               \* PDU.poles
    sensors,             \* PDU.sensors
    debug_null_sensors,  \* PDU.debug_null_sensors (present: the attribute exists)
    logger_level,        \* logger.level
    pc,                  \* where the call in progress stands, "idle" when none is
    sent,                \* the batches the call in progress (or the last call) sent
    reply,               \* what the transport answered to the last poll
    call,                \* the call in progress (or the last call) and how it ended
    prev,                \* the call before it
    diffs,               \* the newly-null entries the last poll logged
    device,              \* the remote PDU the transport talks to
    crawls,              \* how many times crawl was called
    observed,            \* what a concurrent reader last read from a sensor
    history,             \* the calls made so far, as far as is recorded
    location,            \* PDU.location
    pdu_name,            \* PDU.name
    metric_obj           \* a Metric object

\* what discovery and polling never touch
aside == <<location, pdu_name, metric_obj>>

vars == <<heap, connectors, poles, sensors, debug_null_sensors, logger_level,
          pc, sent, reply, call, prev, diffs, device, crawls, observed, history,
          aside>>

\* -------------------------------------------------------------- Connector
method_by_type(type_) ==
    CASE type_ = "inlet" -> "getSensors"
      [] type_ = "outlet" -> "getSensors"
      [] type_ = "device" -> "getDevice"

Connector(rid, type_) ==
    [rid |-> rid, type |-> type_, get_sensors |-> method_by_type(type_),
     socket |-> None, label |-> Last(rid), custom_label |-> Last(rid)]

\* ------------------------------------------------------------------- Pole
\* inlet_ref is the inlet's position in heap, inlet the Connector itself
Pole(label, line, node_id, inlet_ref, inlet) ==
    [type |-> "pole", label |-> inlet.label,
     custom_label |-> IF truthy(label) /\ label # "''" THEN label
                      ELSE "L" \o ToString(line + 1),
     line |-> line, node_id |-> node_id, inlet |-> inlet_ref]

\* ----------------------------------------------------------------- Sensor
ConnectorRef(h) == [kind |-> "connector", at |-> h]
PoleRef(p) == [kind |-> "pole", at |-> p]

Sensor(rid, interface, parent, name) ==
    [rid |-> rid, interface |-> interface, parent |-> parent, name |-> name,
     metric |-> "unspecified", unit |-> "none", longname |-> None,
     value |-> None, timestamp |-> None]

set_value_forgets_longname(s, value, timestamp) ==
    [s EXCEPT !.value = value, !.timestamp = timestamp, !.longname = None]

set_value(s, value, timestamp) ==
    [s EXCEPT !.value = value, !.timestamp = timestamp]

\* ------------------------------------------------------------- strings
\* A string is taken apart into its characters by table and put together
\* again by concatenation.
Lower == <<"a", "b", "c", "d", "e", "f", "g", "h", "i", "j", "k", "l", "m",
           "n", "o", "p", "q", "r", "s", "t", "u", "v", "w", "x", "y", "z">>

Upper == <<"A", "B", "C", "D", "E", "F", "G", "H", "I", "J", "K", "L", "M",
           "N", "O", "P", "Q", "R", "S", "T", "U", "V", "W", "X", "Y", "Z">>

Digits == <<"0", "1", "2", "3", "4", "5", "6", "7", "8", "9">>

is_upper(c) == c \in Range(Upper)

is_lower(c) == c \in Range(Lower)

is_digit(c) == c \in Range(Digits)

\* str.lower() of one character
lower(c) ==
    IF is_upper(c) THEN Lower[CHOOSE i \in DOMAIN Upper : Upper[i] = c] ELSE c

chars(str) ==
    CASE str = "voltage" -> <<"v", "o", "l", "t", "a", "g", "e">>
      [] str = "current" -> <<"c", "u", "r", "r", "e", "n", "t">>
      [] str = "activePower" ->
             <<"a", "c", "t", "i", "v", "e", "P", "o", "w", "e", "r">>
      [] str = "outletState" ->
             <<"o", "u", "t", "l", "e", "t", "S", "t", "a", "t", "e">>
      [] str = "unspecified" ->
             <<"u", "n", "s", "p", "e", "c", "i", "f", "i", "e", "d">>
      [] str = "none" -> <<"n", "o", "n", "e">>
      [] str = "volt" -> <<"v", "o", "l", "t">>
      [] str = "ampere" -> <<"a", "m", "p", "e", "r", "e">>
      [] str = "watt" -> <<"w", "a", "t", "t">>

join(cs) == FoldSeq(LAMBDA acc, c : acc \o c, "", cs)

\* re.sub('(.)([A-Z][a-z]+)', r'\1_\2', cs), scanning from position i: the
\* leftmost match starts at the first character that is followed by an upper
\* case letter and a lower case one, and takes every lower case letter after it
RECURSIVE sub_word(_, _)
sub_word(cs, i) ==
    IF i > Len(cs) THEN <<>>
    ELSE IF i + 2 <= Len(cs) /\ is_upper(cs[i + 1]) /\ is_lower(cs[i + 2])
    THEN LET beyond == {j \in i + 3 .. Len(cs) + 1 :
                          \A k \in i + 2 .. j - 1 : is_lower(cs[k])}
             stop == CHOOSE j \in beyond : \A k \in beyond : k <= j
         IN  <<cs[i], "_">> \o SubSeq(cs, i + 1, stop - 1) \o sub_word(cs, stop)
    ELSE <<cs[i]>> \o sub_word(cs, i + 1)

\* re.sub('([a-z0-9])([A-Z])', r'\1_\2', cs), scanning from position i
RECURSIVE sub_hump(_, _)
sub_hump(cs, i) ==
    IF i > Len(cs) THEN <<>>
    ELSE IF i + 1 <= Len(cs) /\ (is_lower(cs[i]) \/ is_digit(cs[i]))
                             /\ is_upper(cs[i + 1])
    THEN <<cs[i], "_", cs[i + 1]>> \o sub_hump(cs, i + 2)
    ELSE <<cs[i]>> \o sub_hump(cs, i + 1)

camel_to_snake_lowers(label) ==
    LET cs == chars(label)
    IN  join([i \in DOMAIN cs |-> lower(cs[i])])

camel_to_snake(label) ==
    LET humps == sub_hump(sub_word(chars(label), 1), 1)
    IN  join([i \in DOMAIN humps |-> lower(humps[i])])

\* ---------------------------------------------------------- Sensor.update
\* kwargs: the codes under 'type', 0 for a key that is absent
sensor_update(self, kwargs) ==
    LET metric == SENSORS_TYPES[kwargs.type + 1]
        unit == SENSORS_UNITS[kwargs.unit + 1]
        name == IF self.name = None THEN metric ELSE self.name
        longname == "raritan_sensors_" \o camel_to_snake(name)
    IN  [self EXCEPT
           !.metric = metric, !.unit = unit, !.name = name,
           !.longname = IF unit \notin {None, "none"}
                        THEN longname \o "_in_" \o camel_to_snake(unit)
                        ELSE longname]

\* sensor.parent.label
parent_label(s) ==
    IF s.parent.kind = "connector" THEN heap[s.parent.at].label
    ELSE poles[s.parent.at].label

\* ------------------------------------------------------ Connector.update
update_always_overwrites_custom_label(self, method, kwargs) ==
    IF method = "metadata"
    THEN IF truthy(kwargs.label)
         THEN [self EXCEPT !.custom_label = kwargs.label, !.label = kwargs.label]
         ELSE self
    ELSE IF method = "settings"
    THEN IF truthy(kwargs.name) /\ kwargs.name # "''"
         THEN [self EXCEPT !.custom_label = kwargs.name]
         ELSE self
    ELSE self

\* kwargs holds every key the method reads, None for a key that is absent
update(self, method, kwargs) ==
    IF method = "metadata"
    THEN LET labelled ==
                 IF truthy(kwargs.label)
                 THEN [self EXCEPT
                         !.custom_label = IF self.custom_label = self.label
                                          THEN kwargs.label ELSE @,
                         !.label = kwargs.label]
                 ELSE self
         IN  IF self.type = "outlet"
             THEN [labelled EXCEPT !.socket = kwargs.receptacleType]
             ELSE IF self.type = "inlet"
             THEN [labelled EXCEPT !.socket = kwargs.plugType]
             ELSE labelled
    ELSE IF method = "settings"
    THEN IF truthy(kwargs.name) /\ kwargs.name # "''"
         THEN [self EXCEPT !.custom_label = kwargs.name]
         ELSE self
    ELSE self

\* ----------------------------------------------------------------- Metric
\* globals.SENSORS_DESCRIPTION: description texts by longname
SENSORS_DESCRIPTION ==
    [n \in {"raritan_sensors_voltage_in_volt"} |-> "Voltage of the connector"]

\* no Metric object yet
NoMetric ==
    [name |-> None, interface |-> None, unit |-> None, description |-> None,
     sensors |-> <<>>]

\* Metric.add (lines 439-452)
add(self, sensor) ==
    LET name == IF self.name = None THEN sensor.longname ELSE self.name
    IN  [name |-> name,
         interface |-> IF self.interface = None THEN sensor.interface
                       ELSE self.interface,
         unit |-> IF self.unit = None THEN sensor.unit ELSE self.unit,
         description |-> IF name \in DOMAIN SENSORS_DESCRIPTION
                         THEN SENSORS_DESCRIPTION[name] ELSE self.description,
         sensors |-> Append(self.sensors, sensor)]

\* Metric.__init__ (lines 431-437)
Metric(sensor) ==
    add([name |-> None, interface |-> None, unit |-> None,
         description |-> "none", sensors |-> <<>>], sensor)

\* ------------------------------------------------------- DebugNullSensors
DebugNullSensors == [present |-> TRUE, sensors |-> <<>>, responses |-> 0]

NoDebugNullSensors == [present |-> FALSE, sensors |-> <<>>, responses |-> 0]

add_sensor(self, s) ==
    [self EXCEPT !.sensors = Append(@, <<parent_label(s), s.name, s.value>>)]

\* list(set(new.sensors) - set(self.sensors)): the order in which a set is
\* listed is not defined, so diff is the set of lists it may return
diff_keeps_repeats(self, new) ==
    {SelectSeq(new.sensors, LAMBDA e : e \notin Range(self.sensors))}

diff(self, new) == Orderings(Range(new.sensors) \ Range(self.sensors))

\* -------------------------------------------------------------------- PDU
is_null(s) == s.value = None

clear_sensors_keeps_values(ss, now) ==
    [i \in DOMAIN ss |-> [ss[i] EXCEPT !.timestamp = now]]

\* PDU.clear_sensors on the list ss; now is the time.time() reading
clear_sensors(ss, now) == [i \in DOMAIN ss |-> set_value(ss[i], None, now)]

debug_active == DEBUG >= logger_level

\* the batch read_sensors builds: one sub-request per listed interface
query(ss) ==
    LET listed == {i \in DOMAIN ss :
                     ss[i].interface \in SENSORS_NUMERIC \cup SENSORS_STATE}
        req(i) == [rid |-> ss[i].rid,
                   method |-> IF ss[i].interface \in SENSORS_NUMERIC
                              THEN "getReading" ELSE "getState",
                   id |-> IntId(i - 1)]
        RECURSIVE build(_)
        build(i) == IF i > Len(ss) THEN <<>>
                    ELSE (IF i \in listed THEN <<req(i)>> ELSE <<>>) \o build(i + 1)
    IN  build(1)

sensor_at_one_based(ss, id) == index_pos(Len(ss), int(id) - 1)

\* self.sensors[int(sensor_id)] (line 246), where that position exists
sensor_at(ss, id) == index_pos(Len(ss), int(id))

\* the loop over the sub-responses (lines 244-252): it stops at the first
\* sub-response that raises
RECURSIVE apply_responses(_, _, _)
apply_responses(ss, null_sensors, responses) ==
    IF responses = <<>>
    THEN [sensors |-> ss, null_sensors |-> null_sensors, exc |-> None]
    ELSE LET resp == Head(responses)
         IN  IF ~int_ok(resp.id)
             THEN [sensors |-> ss, null_sensors |-> null_sensors, exc |-> "ValueError"]
             ELSE IF ~index_ok(Len(ss), int(resp.id))
             THEN [sensors |-> ss, null_sensors |-> null_sensors, exc |-> "IndexError"]
             ELSE LET at == sensor_at(ss, resp.id)
                      sensor == set_value(ss[at], resp.value, resp.timestamp)
                  IN  apply_responses(
                          [ss EXCEPT ![at] = sensor],
                          IF is_null(sensor) /\ debug_active
                          THEN add_sensor(null_sensors, sensor) ELSE null_sensors,
                          Tail(responses))

read_sensors_reraises(ss) == [sensors |-> ss, exc |-> "TransportError"]

\* the except branch of read_sensors (lines 237-238): a warning is logged
read_sensors_except(ss) == [sensors |-> ss, exc |-> None]

\* the body of read_sensors after the transport answered (lines 240-274)
read_sensors_else(ss, self_debug_null_sensors, responses) ==
    LET r == apply_responses(
                 ss, [DebugNullSensors EXCEPT !.responses = Len(responses)], responses)
        kept == [sensors |-> r.sensors, debug_null_sensors |-> self_debug_null_sensors,
                 diffs |-> {<<>>}, exc |-> r.exc]
    IN  IF r.exc # None \/ ~debug_active THEN kept
        ELSE IF ~self_debug_null_sensors.present
        THEN [kept EXCEPT !.exc = "AttributeError"]
        ELSE [kept EXCEPT !.debug_null_sensors = r.null_sensors,
                          !.diffs = diff(self_debug_null_sensors, r.null_sensors)]

\* ------------------------------------------------------------- discovery
model_requests ==
    <<[rid |-> <<"model", "pdu", "0">>, method |-> "getInlets", id |-> "inlet"],
      [rid |-> <<"model", "pdu", "0">>, method |-> "getOutlets", id |-> "outlet"],
      [rid |-> <<"model", "peripheraldevicemanager">>, method |-> "getDeviceSlots",
       id |-> "device"]>>

\* A PDU object is the record g of its heap, connectors, poles and sensors.
NewPDU == [heap |-> <<>>, connectors |-> <<>>, poles |-> <<>>, sensors |-> <<>>]

\* enumerate(l) filtered by keep: the positions of l, in order
RECURSIVE positions(_, _, _)
positions(l, keep(_), i) ==
    IF i > Len(l) THEN <<>>
    ELSE (IF keep(l[i]) THEN <<i>> ELSE <<>>) \o positions(l, keep, i + 1)

\* lines 122-124
connectors_batch == model_requests

\* lines 125-128: self.connectors is a new list of new Connector objects
get_connectors(g, responses) ==
    LET found == FoldSeq(
                     LAMBDA acc, resp :
                         acc \o [i \in DOMAIN resp.ret |->
                                   Connector(resp.ret[i].rid, resp.id)],
                     <<>>, responses)
    IN  [g EXCEPT !.heap = @ \o found,
                  !.connectors = [i \in DOMAIN found |-> Len(g.heap) + i]]

metadata_batch_numbers_the_asked(g) ==
    LET at == positions(g.connectors, LAMBDA h : g.heap[h].type # "device", 1)
    IN  [k \in DOMAIN at |->
           [rid |-> g.heap[g.connectors[at[k]]].rid, method |-> "getMetaData",
            id |-> k - 1]]

\* lines 131-134: devices have no metadata
metadata_batch(g) ==
    LET at == positions(g.connectors, LAMBDA h : g.heap[h].type # "device", 1)
    IN  [k \in DOMAIN at |->
           [rid |-> g.heap[g.connectors[at[k]]].rid, method |-> "getMetaData",
            id |-> at[k] - 1]]

\* lines 142-144
settings_batch(g) ==
    [i \in DOMAIN g.connectors |->
       [rid |-> g.heap[g.connectors[i]].rid, method |-> "getSettings", id |-> i - 1]]

\* lines 136-139 and 146-149: self.connectors[id].update(method, **ret)
update_connectors(g, method, responses) ==
    FoldSeq(LAMBDA acc, resp :
                LET h == acc.connectors[index_pos(Len(acc.connectors), resp.id)]
                IN  [acc EXCEPT !.heap[h] = update(@, method, resp.ret)],
            g, responses)

\* line 156
inlets(g) ==
    LET at == positions(g.connectors, LAMBDA h : g.heap[h].type = "inlet", 1)
    IN  [k \in DOMAIN at |-> g.connectors[at[k]]]

\* lines 157-159
poles_batch(g) ==
    [i \in DOMAIN inlets(g) |->
       [rid |-> g.heap[inlets(g)[i]].rid, method |-> "getPoles", id |-> i - 1]]

non_metrics == {"label", "line", "nodeId"}

\* lines 163-174: one pole record
get_pole(g, pole, inlet_ref) ==
    LET with_pole == [g EXCEPT !.poles = Append(@,
                         Pole(pole.label, pole.line, pole.nodeId,
                              inlet_ref, g.heap[inlet_ref]))]
    IN  FoldSeq(LAMBDA acc, metric :
                    IF metric \notin non_metrics /\ ~pole.data[metric].none
                    THEN [acc EXCEPT !.sensors = Append(@,
                            Sensor(pole.data[metric].rid, pole.data[metric].type,
                                   PoleRef(Len(acc.poles)), metric))]
                    ELSE acc,
                with_pole, pole.keys)

get_poles_among_connectors(g, responses) ==
    LET found == g.connectors
    IN  FoldSeq(LAMBDA acc, resp :
                    FoldSeq(LAMBDA acc2, pole :
                                get_pole(acc2, pole,
                                         found[index_pos(Len(found), resp.id)]),
                            acc, resp.ret),
                g, responses)

get_poles_anew(g, responses) ==
    LET found == inlets(g)
    IN  FoldSeq(LAMBDA acc, resp :
                    FoldSeq(LAMBDA acc2, pole :
                                get_pole(acc2, pole,
                                         found[index_pos(Len(found), resp.id)]),
                            acc, resp.ret),
                [g EXCEPT !.poles = <<>>], responses)

\* lines 161-174
get_poles(g, responses) ==
    LET found == inlets(g)
    IN  FoldSeq(LAMBDA acc, resp :
                    FoldSeq(LAMBDA acc2, pole :
                                get_pole(acc2, pole,
                                         found[index_pos(Len(found), resp.id)]),
                            acc, resp.ret),
                g, responses)

\* lines 179-181
sensors_batch(g) ==
    [i \in DOMAIN g.connectors |->
       [rid |-> g.heap[g.connectors[i]].rid,
        method |-> g.heap[g.connectors[i]].get_sensors, id |-> i - 1]]

\* lines 184-200: one sub-response
get_sensors_of(g, resp) ==
    LET h == g.connectors[index_pos(Len(g.connectors), resp.id)]
        connector == g.heap[h]
        ret == resp.ret
    IN  IF connector.type = "device" /\ ~ret.none
        THEN [g EXCEPT !.sensors = Append(@,
                 Sensor(ret.rid, ret.type, ConnectorRef(h), None))]
        ELSE IF connector.type \in {"inlet", "outlet"}
        THEN FoldSeq(LAMBDA acc, metric :
                         IF ~ret.data[metric].none
                         THEN [acc EXCEPT !.sensors = Append(@,
                                  Sensor(ret.data[metric].rid, ret.data[metric].type,
                                         ConnectorRef(h), metric))]
                         ELSE acc,
                     g, ret.keys)
        ELSE g

\* lines 183-200
get_sensors(g, responses) == FoldSeq(get_sensors_of, g, responses)

sensor_metadata_batch_for_all(g) ==
    [i \in DOMAIN g.sensors |->
       [rid |-> g.sensors[i].rid, method |-> "getMetaData", id |-> i - 1]]

\* lines 203-206: state sensors have no metadata
sensor_metadata_batch(g) ==
    LET at == positions(g.sensors, LAMBDA s : s.interface \notin SENSORS_STATE, 1)
    IN  [k \in DOMAIN at |->
           [rid |-> g.sensors[at[k]].rid, method |-> "getMetaData", id |-> at[k] - 1]]

\* lines 208-210
update_sensors(g, responses) ==
    FoldSeq(LAMBDA acc, r :
                [acc EXCEPT !.sensors[index_pos(Len(acc.sensors), r.id)] =
                                sensor_update(@, r.ret)],
            g, responses)

\* ------------------------------------------------------- the remote PDU
I1 == <<"model", "inlet", "0">>
I2 == <<"model", "inlet", "1">>
O1 == <<"model", "outlet", "0">>
O2 == <<"model", "outlet", "1">>
S1 == <<"model", "slot", "0">>

Descriptor(rid, type_) == [none |-> FALSE, rid |-> rid, type |-> type_]

NullDescriptor == [none |-> TRUE, rid |-> <<>>, type |-> None]

\* what getSensors / getDevice return: a dict of descriptors (keys in the
\* order of the JSON object) or the descriptor of the device in the slot
SensorsRet(keys, data) ==
    [none |-> FALSE, rid |-> <<>>, type |-> None, keys |-> keys, data |-> data]

DeviceRet(d) ==
    [none |-> d.none, rid |-> d.rid, type |-> d.type, keys |-> <<>>, data |-> <<>>]

\* one inlet with one pole, two outlets, one empty device slot
DeviceA ==
    [inlets |-> <<I1>>, outlets |-> <<O1, O2>>, slots |-> <<S1>>,
     metadata |->
         (I1 :> [label |-> "I1", plugType |-> "IEC-C20", receptacleType |-> None]
          @@ O1 :> [label |-> "1", plugType |-> None, receptacleType |-> "IEC-C13"]
          @@ O2 :> [label |-> "2", plugType |-> None, receptacleType |-> "IEC-C13"]),
     settings |->
         (I1 :> [name |-> ""] @@ O1 :> [name |-> "Server Rack A"]
          @@ O2 :> [name |-> "''"] @@ S1 :> [name |-> "''"]),
     poles |->
         (I1 :> <<[label |-> "", line |-> 0, nodeId |-> 1,
                   keys |-> <<"label", "line", "nodeId", "voltage", "current">>,
                   data |-> [voltage |-> Descriptor(I1 \o <<"pole", "voltage">>,
                                                    "sensors.NumericSensor"),
                             current |-> NullDescriptor]]>>),
     sensors |->
         (I1 :> SensorsRet(<<"voltage">>, [voltage |-> NullDescriptor])
          @@ O1 :> SensorsRet(<<"outletState">>,
                              [outletState |-> Descriptor(O1 \o <<"outletState">>,
                                                          "sensors.StateSensor")])
          @@ O2 :> SensorsRet(<<"outletState">>, [outletState |-> NullDescriptor])
          @@ S1 :> DeviceRet(NullDescriptor)),
     sensor_metadata |->
         (I1 \o <<"pole", "voltage">> :> [type |-> 1, unit |-> 1])]

\* as DeviceA, with a sensor on the inlet and a sensor of an unlisted
\* interface in the device slot
DeviceB ==
    [DeviceA EXCEPT
       !.sensors =
           (I1 :> SensorsRet(<<"voltage", "current">>,
                             [voltage |-> Descriptor(I1 \o <<"voltage">>,
                                                     "sensors.NumericSensor"),
                              current |-> NullDescriptor])
            @@ O1 :> SensorsRet(<<"outletState">>,
                                [outletState |-> Descriptor(O1 \o <<"outletState">>,
                                                            "sensors.StateSensor")])
            @@ O2 :> SensorsRet(<<"outletState">>, [outletState |-> NullDescriptor])
            @@ S1 :> DeviceRet(Descriptor(S1 \o <<"device">>, "sensors.Sensor"))),
       !.sensor_metadata =
           (I1 \o <<"pole", "voltage">> :> [type |-> 1, unit |-> 1]
            @@ I1 \o <<"voltage">> :> [type |-> 1, unit |-> 1]
            @@ S1 \o <<"device">> :> [type |-> 3, unit |-> 3])]

\* two inlets, the first with two poles and the second with one, one outlet
\* and one empty device slot; every pole has a voltage sensor, the first a
\* current sensor too, and the first inlet has a voltage sensor of its own
DeviceC ==
    [inlets |-> <<I1, I2>>, outlets |-> <<O1>>, slots |-> <<S1>>,
     metadata |->
         (I1 :> [label |-> "I1", plugType |-> "IEC-C20", receptacleType |-> None]
          @@ I2 :> [label |-> "I2", plugType |-> "IEC-C20", receptacleType |-> None]
          @@ O1 :> [label |-> "1", plugType |-> None, receptacleType |-> "IEC-C13"]),
     settings |->
         (I1 :> [name |-> ""] @@ I2 :> [name |-> ""] @@ O1 :> [name |-> "''"]
          @@ S1 :> [name |-> "''"]),
     poles |->
         (I1 :> <<[label |-> "", line |-> 0, nodeId |-> 1,
                   keys |-> <<"label", "line", "nodeId", "voltage", "current">>,
                   data |-> [voltage |-> Descriptor(I1 \o <<"pole0", "voltage">>,
                                                    "sensors.NumericSensor"),
                             current |-> Descriptor(I1 \o <<"pole0", "current">>,
                                                    "sensors.NumericSensor")]],
                  [label |-> "", line |-> 1, nodeId |-> 2,
                   keys |-> <<"label", "line", "nodeId", "voltage", "current">>,
                   data |-> [voltage |-> Descriptor(I1 \o <<"pole1", "voltage">>,
                                                    "sensors.NumericSensor"),
                             current |-> NullDescriptor]]>>
          @@ I2 :> <<[label |-> "", line |-> 0, nodeId |-> 3,
                      keys |-> <<"label", "line", "nodeId", "voltage", "current">>,
                      data |-> [voltage |-> Descriptor(I2 \o <<"pole0", "voltage">>,
                                                       "sensors.NumericSensor"),
                                current |-> NullDescriptor]]>>),
     sensors |->
         (I1 :> SensorsRet(<<"voltage">>,
                           [voltage |-> Descriptor(I1 \o <<"voltage">>,
                                                   "sensors.NumericSensor")])
          @@ I2 :> SensorsRet(<<"voltage">>, [voltage |-> NullDescriptor])
          @@ O1 :> SensorsRet(<<"outletState">>,
                              [outletState |-> Descriptor(O1 \o <<"outletState">>,
                                                          "sensors.StateSensor")])
          @@ S1 :> DeviceRet(NullDescriptor)),
     sensor_metadata |->
         (I1 \o <<"pole0", "voltage">> :> [type |-> 1, unit |-> 1]
          @@ I1 \o <<"pole0", "current">> :> [type |-> 1, unit |-> 1]
          @@ I1 \o <<"pole1", "voltage">> :> [type |-> 1, unit |-> 1]
          @@ I2 \o <<"pole0", "voltage">> :> [type |-> 1, unit |-> 1]
          @@ I1 \o <<"voltage">> :> [type |-> 1, unit |-> 1])]

\* the remote PDUs by name
Remote(name) ==
    CASE name = "A" -> DeviceA [] name = "B" -> DeviceB [] name = "C" -> DeviceC

\* the devices discovery is checked against
Devices == {"A"}

rids(l) == [i \in DOMAIN l |-> [rid |-> l[i]]]

\* the device's answer to one sub-request
device_ret(dev, req) ==
    CASE req.method = "getInlets" -> rids(dev.inlets)
      [] req.method = "getOutlets" -> rids(dev.outlets)
      [] req.method = "getDeviceSlots" -> rids(dev.slots)
      [] req.method = "getMetaData" ->
             IF req.rid \in DOMAIN dev.metadata THEN dev.metadata[req.rid]
             ELSE dev.sensor_metadata[req.rid]
      [] req.method = "getSettings" -> dev.settings[req.rid]
      [] req.method = "getPoles" -> dev.poles[req.rid]
      [] req.method \in {"getSensors", "getDevice"} -> dev.sensors[req.rid]

device_answer(dev, req) == [id |-> req.id, ret |-> device_ret(dev, req)]

\* the transport returns the answers to a batch in any order
Replies(dev, batch) ==
    {[k \in DOMAIN order |-> device_answer(dev, batch[order[k]])] :
        order \in Orderings(DOMAIN batch)}

\* the transport returns the answers to some of the sub-requests, in any order
PartialReplies(dev, batch) ==
    {[k \in DOMAIN order |-> device_answer(dev, batch[order[k]])] :
        order \in UNION {Orderings(S) : S \in SUBSET DOMAIN batch}}

InOrder(dev, batch) == [k \in DOMAIN batch |-> device_answer(dev, batch[k])]

\* --------------------------------------------------------------- observers
\* a call: its time.time() reading, whether the transport worked, the
\* exception that left it, whether some sensor had a value before (wiped) and
\* after it (filled), and the exchange at which the transport raised
NoCall ==
    [op |-> None, now |-> None, ok |-> TRUE, exc |-> None, wiped |-> FALSE,
     filled |-> FALSE, at |-> None]

Filled(ss) == \E i \in DOMAIN ss : ss[i].value # None

TransportError == [ok |-> FALSE, responses |-> <<>>]

Answer(responses) == [ok |-> TRUE, responses |-> responses]

\* ----------------------------------------------------------- PDU.__init__
\* lines 61-63 and 77-79
PDU_init(level) ==
    [heap |-> <<>>, connectors |-> <<>>, poles |-> <<>>, sensors |-> <<>>,
     debug_null_sensors |-> IF DEBUG >= level THEN DebugNullSensors
                            ELSE NoDebugNullSensors]

\* urlparse(location): its scheme, netloc and path
urlparse(address) ==
    CASE address = "http://pdu1" -> [scheme |-> "http", netloc |-> "pdu1", path |-> ""]
      [] address = "https://pdu1" -> [scheme |-> "https", netloc |-> "pdu1", path |-> ""]
      [] address = "//pdu1" -> [scheme |-> "", netloc |-> "pdu1", path |-> ""]
      [] address = "pdu1" -> [scheme |-> "", netloc |-> "", path |-> "pdu1"]

\* urlunparse(parts)
urlunparse(parts) ==
    (IF parts.scheme # "" THEN parts.scheme \o ":" ELSE "")
    \o (IF parts.netloc # "" THEN "//" \o parts.netloc ELSE "")
    \o parts.path

\* parts._replace(scheme='http'): a new tuple
replace_scheme(parts, scheme) == [parts EXCEPT !.scheme = scheme]

\* lines 54-60: the tuple _replace returns (line 57) is not assigned to
\* self.location, which stays the tuple urlparse returned
PDU_location(address, name) ==
    LET parsed == urlparse(address)
        replaced == IF parsed.scheme = "" THEN replace_scheme(parsed, "http")
                    ELSE parsed
    IN  [name |-> IF name # None THEN name ELSE parsed.netloc,
         location |-> urlunparse(parsed)]

\* the PDU object that is discovered and polled was built by
\* PDU('http://pdu1')
Constructed ==
    /\ location = PDU_location("http://pdu1", None).location
    /\ pdu_name = PDU_location("http://pdu1", None).name
    /\ metric_obj = NoMetric

\* ---------------------------------------------------------- crawl actions
g == [heap |-> heap, connectors |-> connectors, poles |-> poles, sensors |-> sensors]

Becomes_init(r) ==
    /\ heap = r.heap
    /\ connectors = r.connectors
    /\ poles = r.poles
    /\ sensors = r.sensors
    /\ debug_null_sensors = r.debug_null_sensors

Becomes(r) ==
    /\ heap' = r.heap
    /\ connectors' = r.connectors
    /\ poles' = r.poles
    /\ sensors' = r.sensors

CrawlSteps ==
    <<"connectors", "metadata", "settings", "poles", "sensors", "sensor_metadata">>

StepOf(at) == CHOOSE i \in DOMAIN CrawlSteps : CrawlSteps[i] = at

\* the batch the exchange `at` sends from the PDU r
batch_of(at, r) ==
    CASE at = "connectors" -> connectors_batch
      [] at = "metadata" -> metadata_batch(r)
      [] at = "settings" -> settings_batch(r)
      [] at = "poles" -> poles_batch(r)
      [] at = "sensors" -> sensors_batch(r)
      [] at = "sensor_metadata" -> sensor_metadata_batch(r)

\* what the exchange `at` does with the answer
apply_of(at, r, responses) ==
    CASE at = "connectors" -> get_connectors(r, responses)
      [] at = "metadata" -> update_connectors(r, "metadata", responses)
      [] at = "settings" -> update_connectors(r, "settings", responses)
      [] at = "poles" -> get_poles(r, responses)
      [] at = "sensors" -> get_sensors(r, responses)
      [] at = "sensor_metadata" -> update_sensors(r, responses)

crawl_swallows_error(at) ==
    [exc |-> None,
     pc |-> IF StepOf(at) < Len(CrawlSteps) THEN CrawlSteps[StepOf(at) + 1] ELSE "idle"]

\* bulk, _get_connectors, _get_poles, _get_sensors and crawl have no handler:
\* an exception of client.send ends the crawl and reaches the caller
on_transport_error(at) == [exc |-> "TransportError", pc |-> "idle"]

\* the batch the transport has still to answer
Pending == IF pc \in Range(CrawlSteps) THEN Last(sent) ELSE <<>>

\* the ids of the sensor metadata that arrived in the last exchange
Arrived(responses) == [arrived |-> {responses[k].id : k \in DOMAIN responses}]

\* crawl is called: the first batch goes out (lines 107, 122-124)
Crawl ==
    /\ pc = "idle"
    /\ crawls < MaxCrawls
    /\ crawls' = crawls + 1
    /\ pc' = "connectors"
    /\ sent' = <<connectors_batch>>
    /\ call' = [NoCall EXCEPT !.op = "crawl"]
    /\ prev' = call
    /\ reply' = Answer(<<>>)
    /\ history' = <<>>
    /\ UNCHANGED <<heap, connectors, poles, sensors, debug_null_sensors,
                   logger_level, diffs, device, observed, aside>>

\* the transport answers the batch of the exchange in progress: the answer
\* is applied and the next batch goes out, or crawl returns
CrawlAnswer(responses) ==
    /\ pc \in Range(CrawlSteps)
    /\ LET r == apply_of(pc, g, responses)
           last == StepOf(pc) = Len(CrawlSteps)
       IN  /\ Becomes(r)
           /\ pc' = IF last THEN "idle" ELSE CrawlSteps[StepOf(pc) + 1]
           /\ sent' = IF last THEN sent ELSE Append(sent, batch_of(pc', r))
           /\ history' = IF last THEN <<Arrived(responses)>> ELSE history
    /\ UNCHANGED <<debug_null_sensors, logger_level, reply, call, prev, diffs,
                   device, crawls, observed, aside>>

\* the transport raises in the exchange in progress
CrawlTransportError ==
    /\ pc \in Range(CrawlSteps)
    /\ LET r == on_transport_error(pc)
       IN  /\ pc' = r.pc
           /\ call' = [call EXCEPT !.ok = FALSE, !.exc = r.exc, !.at = pc]
           /\ sent' = IF r.pc = "idle" THEN sent ELSE Append(sent, batch_of(r.pc, g))
    /\ reply' = TransportError
    /\ UNCHANGED <<heap, connectors, poles, sensors, debug_null_sensors,
                   logger_level, prev, diffs, device, crawls, observed, history,
                   aside>>

\* what a reader saw: the sensor's position, the pair it read, and the pairs
\* that one update wrote together (the pair of the last update that ended and,
\* when a set_value is in progress on the sensor, the pair it is writing)
NotObserved == [sensor |-> 0, value |-> None, timestamp |-> None, whole |-> {}]

\* a cycle that ran the diagnostics: the positions of the sensors answered
\* null and answered with a value, and the tuples of its snapshot
Cycle(r, responses) ==
    LET answered == {sensor_at(r.sensors, responses[k].id) : k \in DOMAIN responses}
    IN  [nulls |-> {i \in answered : r.sensors[i].value = None},
         filled |-> {i \in answered : r.sensors[i].value # None},
         snapshot |-> Range(r.debug_null_sensors.sensors)]

\* the last three cycles
LastCycles(h) == IF Len(h) > 3 THEN Tail(h) ELSE h

\* ------------------------------------------------------------ poll actions
\* PDU.clear_sensors called on its own
ClearSensors(now) ==
    /\ pc = "idle"
    /\ sensors' = clear_sensors(sensors, now)
    /\ call' = [NoCall EXCEPT !.op = "clear_sensors", !.now = now,
                               !.wiped = Filled(sensors)]
    /\ prev' = call
    /\ UNCHANGED <<heap, connectors, poles, debug_null_sensors, logger_level,
                   pc, sent, reply, diffs, device, crawls, observed, history,
                   aside>>

\* read_sensors up to the send (lines 219-235)
ReadSensorsSend(now) ==
    /\ pc = "idle"
    /\ sensors' = clear_sensors(sensors, now)
    /\ sent' = <<query(sensors)>>
    /\ pc' = "read_sensors"
    /\ call' = [NoCall EXCEPT !.op = "read_sensors", !.now = now,
                               !.wiped = Filled(sensors)]
    /\ prev' = call
    /\ reply' = Answer(<<>>)
    /\ diffs' = <<>>
    /\ UNCHANGED <<heap, connectors, poles, debug_null_sensors, logger_level,
                   device, crawls, observed, history, aside>>

\* the transport raises: the except branch (lines 237-238), then the return
ReadSensorsExcept ==
    /\ pc = "read_sensors"
    /\ pc' = "idle"
    /\ reply' = TransportError
    /\ LET r == read_sensors_except(sensors)
       IN  /\ sensors' = r.sensors
           /\ call' = [call EXCEPT !.ok = FALSE, !.exc = r.exc]
    /\ UNCHANGED <<heap, connectors, poles, debug_null_sensors,
                   logger_level, sent, prev, diffs, device, crawls, observed, history,
                   aside>>

\* the transport answers: the else branch (lines 240-274), then the return
\* or the exception that leaves read_sensors
ReadSensorsElse(responses) ==
    /\ pc = "read_sensors"
    /\ pc' = "idle"
    /\ reply' = Answer(responses)
    /\ LET r == read_sensors_else(sensors, debug_null_sensors, responses)
       IN  /\ sensors' = r.sensors
           /\ debug_null_sensors' = r.debug_null_sensors
           /\ diffs' \in r.diffs
           /\ call' = [call EXCEPT !.exc = r.exc, !.filled = Filled(r.sensors)]
           /\ history' = IF debug_active /\ r.exc = None
                         THEN LastCycles(Append(history, Cycle(r, responses)))
                         ELSE history
    /\ UNCHANGED <<heap, connectors, poles, logger_level, sent, prev, device,
                   crawls, observed, aside>>

\* ------------------------------------------------------ the polled PDU
\* a crawl in which the transport answers every batch in the order asked
crawl_in_order(dev, r) ==
    FoldSeq(LAMBDA acc, at : apply_of(at, acc, InOrder(dev, batch_of(at, acc))),
            r, CrawlSteps)

\* the PDU the polls run on: DeviceB, discovered once
Polled == crawl_in_order(DeviceB, NewPDU)

\* the sub-responses a transport may return to a poll of n sensors: ids that
\* are positions, one past the end, negative, or no integer
PollIds(n) == {IntId(k) : k \in -1 .. n} \cup {StrId("x")}

Readings == {None, "1.5"}

DeviceTimes == {"d1"}

WallTimes == {"w1", "w2"}

SubResponses(ids) ==
    [id : ids, value : Readings, timestamp : DeviceTimes]

\* the batches the transport may answer a poll with
PollAnswers == SeqsUpTo(SubResponses(PollIds(Len(Polled.sensors))), MaxResp)

\* -------------------------------------------- a poll cycle, write by write
\* For a reader that runs concurrently with a poll, the cycle is taken
\* statement by statement: set_value is the write of value (line 411) and then
\* the write of timestamp (line 412).  pc is a record here: the stage of the
\* cycle, the position in the loop, whether the set_value in progress has
\* written value, and the pair the sensor held before it.
Pair(s) == <<s.value, s.timestamp>>

Stage(stage, i) == [stage |-> stage, i |-> i, half |-> FALSE, old |-> <<None, None>>]

\* the sensor the set_value in progress is called on, and its arguments
WriteTarget ==
    IF pc.stage = "clear" THEN pc.i
    ELSE sensor_at(sensors, reply.responses[pc.i].id)

WriteArgs ==
    IF pc.stage = "clear" THEN <<None, call.now>>
    ELSE <<reply.responses[pc.i].value, reply.responses[pc.i].timestamp>>

\* the stage after the set_value in progress
AfterWrite ==
    IF pc.stage = "clear"
    THEN IF pc.i < Len(sensors) THEN Stage("clear", pc.i + 1) ELSE Stage("send", 0)
    ELSE IF pc.i < Len(reply.responses) THEN Stage("apply", pc.i + 1)
    ELSE Stage("idle", 0)

\* read_sensors is called (line 219)
PollBegins(now) ==
    /\ pc.stage = "idle"
    /\ pc' = IF sensors = <<>> THEN Stage("send", 0) ELSE Stage("clear", 1)
    /\ call' = [NoCall EXCEPT !.op = "read_sensors", !.now = now]
    /\ prev' = call
    /\ reply' = Answer(<<>>)
    /\ UNCHANGED <<heap, connectors, poles, sensors, debug_null_sensors,
                   logger_level, sent, diffs, device, crawls, observed, history,
                   aside>>

\* self.value = value (line 411)
WriteValue ==
    /\ pc.stage \in {"clear", "apply"}
    /\ ~pc.half
    /\ sensors' = [sensors EXCEPT ![WriteTarget].value = WriteArgs[1]]
    /\ pc' = [pc EXCEPT !.half = TRUE, !.old = Pair(sensors[WriteTarget])]
    /\ UNCHANGED <<heap, connectors, poles, debug_null_sensors, logger_level,
                   sent, reply, call, prev, diffs, device, crawls, observed, history,
                   aside>>

\* self.timestamp = timestamp (line 412)
WriteTimestamp ==
    /\ pc.stage \in {"clear", "apply"}
    /\ pc.half
    /\ sensors' = [sensors EXCEPT ![WriteTarget].timestamp = WriteArgs[2]]
    /\ pc' = AfterWrite
    /\ UNCHANGED <<heap, connectors, poles, debug_null_sensors, logger_level,
                   sent, reply, call, prev, diffs, device, crawls, observed, history,
                   aside>>

\* the batch is built and sent (lines 221-235)
PollSends ==
    /\ pc.stage = "send"
    /\ sent' = <<query(sensors)>>
    /\ pc' = Stage("await", 0)
    /\ UNCHANGED <<heap, connectors, poles, sensors, debug_null_sensors,
                   logger_level, reply, call, prev, diffs, device, crawls, observed, history,
                   aside>>

\* the transport raises (lines 237-238)
PollFails ==
    /\ pc.stage = "await"
    /\ pc' = Stage("idle", 0)
    /\ reply' = TransportError
    /\ call' = [call EXCEPT !.ok = FALSE]
    /\ UNCHANGED <<heap, connectors, poles, sensors, debug_null_sensors,
                   logger_level, sent, prev, diffs, device, crawls, observed, history,
                   aside>>

\* the transport answers (line 236); the diagnostics are off
PollAnswered(responses) ==
    /\ pc.stage = "await"
    /\ pc' = IF responses = <<>> THEN Stage("idle", 0) ELSE Stage("apply", 1)
    /\ reply' = Answer(responses)
    /\ UNCHANGED <<heap, connectors, poles, sensors, debug_null_sensors,
                   logger_level, sent, call, prev, diffs, device, crawls, observed, history,
                   aside>>

\* the reader reads sensor i's value and timestamp
ReaderReads(i) ==
    /\ observed' =
           [sensor |-> i, value |-> sensors[i].value,
            timestamp |-> sensors[i].timestamp,
            whole |-> IF pc.stage \in {"clear", "apply"} /\ pc.half /\ WriteTarget = i
                      THEN {pc.old, WriteArgs} ELSE {Pair(sensors[i])}]
    /\ UNCHANGED <<heap, connectors, poles, sensors, debug_null_sensors,
                   logger_level, pc, sent, reply, call, prev, diffs, device, crawls,
                   history, aside>>

\* the PDU the reader watches: DeviceA, discovered once
Watched == crawl_in_order(DeviceA, NewPDU)

\* the batches the transport may answer its polls with: known ids only
WatchedAnswers ==
    SeqsUpTo([id : {IntId(k) : k \in 0 .. Len(Watched.sensors) - 1},
              value : Readings, timestamp : DeviceTimes], MaxResp)

\* ------------------------------------------- polls with the diagnostics
\* the batches the transport may answer with: the pole's and the inlet's
\* voltage sensors, each at most once, in any order
DiagAnswers ==
    {b \in SeqsUpTo([id : {IntId(0), IntId(1)}, value : Readings,
                     timestamp : DeviceTimes], MaxResp) :
        \A j, k \in DOMAIN b : b[j].id = b[k].id => j = k}

\* ------------------------------------------------- updates of a connector
\* Connector.update called on connectors[0]
Update(method, kwargs) ==
    /\ Len(history) < MaxUpdates
    /\ heap' = [heap EXCEPT ![connectors[1]] = update(@, method, kwargs)]
    /\ history' = Append(history, [method |-> method, kwargs |-> kwargs])
    /\ UNCHANGED <<connectors, poles, sensors, debug_null_sensors, logger_level,
                   pc, sent, reply, call, prev, diffs, device, crawls, observed,
                   aside>>

\* what getMetaData and getSettings may return for a connector
MetadataRets ==
    [label : {None, "", "Outlet 1", "Outlet 2"}, plugType : {None},
     receptacleType : {"IEC-C13"}]

SettingsRets == [name : {None, "", "''", "Server Rack A", "0"}]

\* the connectors a discovery may have just built
NewConnectors == {Connector(I1, "inlet"), Connector(O1, "outlet"), Connector(S1, "device")}

\* --------------------------------------------------- diffs of snapshots
\* the tuples of null sensors
Tuples ==
    {<<"Outlet 1", "current", None>>, <<"Outlet 2", "voltage", None>>,
     <<"Outlet 1", "voltage", None>>}

Snapshots ==
    {[present |-> TRUE, sensors |-> l, responses |-> Len(l)] :
        l \in SeqsUpTo(Tuples, MaxSnap)}

\* self.debug_null_sensors.diff(null_sensors) (line 261)
Diff(new) ==
    /\ history = <<>>
    /\ diffs' \in diff(debug_null_sensors, new)
    /\ history' = <<[op |-> "diff", self |-> debug_null_sensors, new |-> new]>>
    /\ UNCHANGED <<heap, connectors, poles, sensors, debug_null_sensors,
                   logger_level, pc, sent, reply, call, prev, device, crawls,
                   observed, aside>>

\* self.debug_null_sensors = null_sensors (line 274)
Replace ==
    /\ history # <<>>
    /\ debug_null_sensors' = history[1].new
    /\ diffs' = <<>>
    /\ history' = <<>>
    /\ UNCHANGED <<heap, connectors, poles, sensors, logger_level, pc, sent,
                   reply, call, prev, device, crawls, observed, aside>>

\* --------------------------------------------------- sensors of a Metric
\* the sensors that are grouped: those of the polled PDU
Grouped == Range(Polled.sensors)

\* Metric(sensor)
MetricNew(sensor) ==
    /\ history = <<>>
    /\ metric_obj' = Metric(sensor)
    /\ history' = <<sensor>>
    /\ UNCHANGED <<heap, connectors, poles, sensors, debug_null_sensors,
                   logger_level, pc, sent, reply, call, prev, diffs, device, crawls,
                   observed, location, pdu_name>>

\* metric.add(sensor)
MetricAdd(sensor) ==
    /\ history # <<>>
    /\ Len(history) < MaxAdds
    /\ metric_obj' = add(metric_obj, sensor)
    /\ history' = Append(history, sensor)
    /\ UNCHANGED <<heap, connectors, poles, sensors, debug_null_sensors,
                   logger_level, pc, sent, reply, call, prev, diffs, device, crawls,
                   observed, location, pdu_name>>

\* ----------------------------------------------- metadata of one sensor
\* the names a sensor is created with: a metric key, or none (device slot)
SensorNames == {None, "voltage", "current", "activePower", "outletState"}

\* the codes getMetaData returns under 'type'
MetadataCodes == [type : DOMAIN SENSORS_TYPES, unit : DOMAIN SENSORS_UNITS]

\* self.sensors[0].update(**ret), ret carrying the codes type and unit
SensorUpdate(codes) ==
    /\ Len(history) < MaxMeta
    /\ sensors' = [sensors EXCEPT
                     ![1] = sensor_update(@, [type |-> codes.type - 1,
                                              unit |-> codes.unit - 1])]
    /\ history' = Append(history, [name |-> sensors[1].name, codes |-> codes])
    /\ UNCHANGED <<heap, connectors, poles, debug_null_sensors, logger_level,
                   pc, sent, reply, call, prev, diffs, device, crawls, observed,
                   aside>>

\* ------------------------------------------------------ PDU(location, name)
\* the addresses a PDU is constructed with: with a scheme, with the scheme
\* left out of a network-path reference, and as a bare host
Addresses == {"http://pdu1", "https://pdu1", "//pdu1", "pdu1"}

\* the display names: none given, one given, an empty one given
DisplayNames == {None, "rack-a", ""}

\* PDU(address, name=name): a new PDU object (lines 51-79)
New(address, name) ==
    /\ Len(history) < MaxNew
    /\ location' = PDU_location(address, name).location
    /\ pdu_name' = PDU_location(address, name).name
    /\ Becomes(PDU_init(logger_level))
    /\ debug_null_sensors' = PDU_init(logger_level).debug_null_sensors
    /\ history' = Append(history, [address |-> address, name |-> name])
    /\ UNCHANGED <<logger_level, pc, sent, reply, call, prev, diffs, device,
                   crawls, observed, metric_obj>>

\* ---------------------------------------------------- the logger's level
\* the levels the exporter's logger is set to
Levels == {DEBUG, INFO}

\* the batches the transport may answer with: at most a reading of the
\* first sensor
LevelAnswers == {b \in DiagAnswers : \A k \in DOMAIN b : b[k].id = IntId(0)}

\* logger.setLevel(level), by the surrounding program, between two calls
SetLevel(level) ==
    /\ pc = "idle"
    /\ level # logger_level
    /\ logger_level' = level
    /\ UNCHANGED <<heap, connectors, poles, sensors, debug_null_sensors, pc, sent,
                   reply, call, prev, diffs, device, crawls, observed, history,
                   aside>>

\* ------------------------------------------------------- specifications
\* Discovery: a new PDU object, on which crawl is called up to MaxCrawls times
InitCrawl ==
    /\ device \in Devices
    /\ logger_level = NOTSET
    /\ Becomes_init(PDU_init(logger_level))
    /\ pc = "idle"
    /\ sent = <<>>
    /\ reply = Answer(<<>>)
    /\ call = NoCall
    /\ prev = NoCall
    /\ diffs = <<>>
    /\ crawls = 0
    /\ observed = NotObserved
    /\ history = <<>>
    /\ Constructed

NextCrawl ==
    \/ Crawl
    \/ /\ pc \in Range(CrawlSteps)
       /\ \E responses \in Replies(Remote(device), Pending) : CrawlAnswer(responses)
    \/ CrawlTransportError

SpecCrawl == InitCrawl /\ [][NextCrawl]_vars

\* Polling: clear_sensors and read_sensors on the discovered PDU, with the
\* diagnostics off; the transport raises or answers with any batch of at most
\* MaxResp sub-responses
Init ==
    /\ device = "B"
    /\ logger_level = INFO
    /\ heap = Polled.heap
    /\ connectors = Polled.connectors
    /\ poles = Polled.poles
    /\ sensors = Polled.sensors
    /\ debug_null_sensors = PDU_init(logger_level).debug_null_sensors
    /\ pc = "idle"
    /\ sent = <<>>
    /\ reply = Answer(<<>>)
    /\ call = [NoCall EXCEPT !.op = "crawl"]
    /\ prev = NoCall
    /\ diffs = <<>>
    /\ crawls = 1
    /\ observed = NotObserved
    /\ history = <<>>
    /\ Constructed

Next ==
    \/ \E now \in WallTimes : ClearSensors(now)
    \/ \E now \in WallTimes : ReadSensorsSend(now)
    \/ ReadSensorsExcept
    \/ /\ pc = "read_sensors"
       /\ \E responses \in PollAnswers : ReadSensorsElse(responses)

Spec == Init /\ [][Next]_vars

\* A poll cycle with a concurrent reader
InitReader ==
    /\ device = "A"
    /\ logger_level = INFO
    /\ heap = Watched.heap
    /\ connectors = Watched.connectors
    /\ poles = Watched.poles
    /\ sensors = Watched.sensors
    /\ debug_null_sensors = PDU_init(logger_level).debug_null_sensors
    /\ pc = Stage("idle", 0)
    /\ sent = <<>>
    /\ reply = Answer(<<>>)
    /\ call = [NoCall EXCEPT !.op = "crawl"]
    /\ prev = NoCall
    /\ diffs = <<>>
    /\ crawls = 1
    /\ observed = NotObserved
    /\ history = <<>>
    /\ Constructed

NextReader ==
    \/ \E now \in WallTimes : PollBegins(now)
    \/ WriteValue
    \/ WriteTimestamp
    \/ PollSends
    \/ PollFails
    \/ /\ pc.stage = "await"
       /\ \E responses \in WatchedAnswers : PollAnswered(responses)
    \/ \E i \in DOMAIN sensors : ReaderReads(i)

SpecReader == InitReader /\ [][NextReader]_vars

\* Poll cycles of a PDU built while the logger's level is DEBUG
InitDiag ==
    /\ device = "B"
    /\ logger_level = DEBUG
    /\ heap = Polled.heap
    /\ connectors = Polled.connectors
    /\ poles = Polled.poles
    /\ sensors = Polled.sensors
    /\ debug_null_sensors = PDU_init(logger_level).debug_null_sensors
    /\ pc = "idle"
    /\ sent = <<>>
    /\ reply = Answer(<<>>)
    /\ call = [NoCall EXCEPT !.op = "crawl"]
    /\ prev = NoCall
    /\ diffs = <<>>
    /\ crawls = 1
    /\ observed = NotObserved
    /\ history = <<>>
    /\ Constructed

NextDiag ==
    \/ \E now \in WallTimes : ReadSensorsSend(now)
    \/ ReadSensorsExcept
    \/ /\ pc = "read_sensors"
       /\ \E responses \in DiagAnswers : ReadSensorsElse(responses)

SpecDiag == InitDiag /\ [][NextDiag]_vars

\* Updates of one newly built connector
InitLabel ==
    /\ device = "A"
    /\ logger_level = INFO
    /\ \E c \in NewConnectors : heap = <<c>>
    /\ connectors = <<1>>
    /\ poles = <<>>
    /\ sensors = <<>>
    /\ debug_null_sensors = PDU_init(logger_level).debug_null_sensors
    /\ pc = "connectors"
    /\ sent = <<>>
    /\ reply = Answer(<<>>)
    /\ call = [NoCall EXCEPT !.op = "crawl"]
    /\ prev = NoCall
    /\ diffs = <<>>
    /\ crawls = 1
    /\ observed = NotObserved
    /\ history = <<>>
    /\ Constructed

NextLabel ==
    \/ \E kwargs \in MetadataRets : Update("metadata", kwargs)
    \/ \E kwargs \in SettingsRets : Update("settings", kwargs)

SpecLabel == InitLabel /\ [][NextLabel]_vars

\* Diffs of two snapshots
InitDiff ==
    /\ device = "A"
    /\ logger_level = DEBUG
    /\ heap = <<>>
    /\ connectors = <<>>
    /\ poles = <<>>
    /\ sensors = <<>>
    /\ debug_null_sensors \in Snapshots
    /\ pc = "read_sensors"
    /\ sent = <<>>
    /\ reply = Answer(<<>>)
    /\ call = [NoCall EXCEPT !.op = "read_sensors"]
    /\ prev = NoCall
    /\ diffs = <<>>
    /\ crawls = 0
    /\ observed = NotObserved
    /\ history = <<>>
    /\ Constructed

NextDiff ==
    \/ \E new \in Snapshots : Diff(new)
    \/ Replace

SpecDiff == InitDiff /\ [][NextDiff]_vars

\* Sensors of the polled PDU grouped in one Metric
InitMetric ==
    /\ device = "B"
    /\ logger_level = INFO
    /\ heap = Polled.heap
    /\ connectors = Polled.connectors
    /\ poles = Polled.poles
    /\ sensors = Polled.sensors
    /\ debug_null_sensors = PDU_init(logger_level).debug_null_sensors
    /\ pc = "idle"
    /\ sent = <<>>
    /\ reply = Answer(<<>>)
    /\ call = [NoCall EXCEPT !.op = "crawl"]
    /\ prev = NoCall
    /\ diffs = <<>>
    /\ crawls = 1
    /\ observed = NotObserved
    /\ history = <<>>
    /\ Constructed

NextMetric ==
    \/ \E sensor \in Grouped : MetricNew(sensor)
    \/ \E sensor \in Grouped : MetricAdd(sensor)

SpecMetric == InitMetric /\ [][NextMetric]_vars

\* One crawl of DeviceB in which the answer to the sensor-metadata batch may
\* lack sub-responses
InitMeta ==
    /\ device = "B"
    /\ logger_level = NOTSET
    /\ Becomes_init(PDU_init(logger_level))
    /\ pc = "idle"
    /\ sent = <<>>
    /\ reply = Answer(<<>>)
    /\ call = NoCall
    /\ prev = NoCall
    /\ diffs = <<>>
    /\ crawls = 0
    /\ observed = NotObserved
    /\ history = <<>>
    /\ Constructed

NextMeta ==
    \/ crawls = 0 /\ Crawl
    \/ /\ pc \in Range(CrawlSteps) \ {"sensor_metadata"}
       /\ \E responses \in Replies(Remote(device), Pending) : CrawlAnswer(responses)
    \/ /\ pc = "sensor_metadata"
       /\ \E responses \in PartialReplies(Remote(device), Pending) :
              CrawlAnswer(responses)
    \/ CrawlTransportError

SpecMeta == InitMeta /\ [][NextMeta]_vars

\* One crawl of DeviceC, the answers of every exchange in any order
InitPoles ==
    /\ device = "C"
    /\ logger_level = NOTSET
    /\ Becomes_init(PDU_init(logger_level))
    /\ pc = "idle"
    /\ sent = <<>>
    /\ reply = Answer(<<>>)
    /\ call = NoCall
    /\ prev = NoCall
    /\ diffs = <<>>
    /\ crawls = 0
    /\ observed = NotObserved
    /\ history = <<>>
    /\ Constructed

NextPoles ==
    \/ crawls = 0 /\ Crawl
    \/ /\ pc \in Range(CrawlSteps)
       /\ \E responses \in Replies(Remote(device), Pending) : CrawlAnswer(responses)
    \/ CrawlTransportError

SpecPoles == InitPoles /\ [][NextPoles]_vars

\* Metadata answers applied to one newly created sensor
InitUpdate ==
    /\ device = "B"
    /\ logger_level = INFO
    /\ heap = Polled.heap
    /\ connectors = Polled.connectors
    /\ poles = <<>>
    /\ \E name \in SensorNames :
           sensors = <<Sensor(S1 \o <<"device">>, "sensors.NumericSensor",
                              ConnectorRef(1), name)>>
    /\ debug_null_sensors = PDU_init(logger_level).debug_null_sensors
    /\ pc = "sensor_metadata"
    /\ sent = <<>>
    /\ reply = Answer(<<>>)
    /\ call = [NoCall EXCEPT !.op = "crawl"]
    /\ prev = NoCall
    /\ diffs = <<>>
    /\ crawls = 1
    /\ observed = NotObserved
    /\ history = <<>>
    /\ Constructed

NextUpdate == \E codes \in MetadataCodes : SensorUpdate(codes)

SpecUpdate == InitUpdate /\ [][NextUpdate]_vars

\* Construction of PDU objects
InitNew ==
    /\ device = "A"
    /\ logger_level = INFO
    /\ heap = <<>>
    /\ connectors = <<>>
    /\ poles = <<>>
    /\ sensors = <<>>
    /\ debug_null_sensors = NoDebugNullSensors
    /\ pc = "idle"
    /\ sent = <<>>
    /\ reply = Answer(<<>>)
    /\ call = NoCall
    /\ prev = NoCall
    /\ diffs = <<>>
    /\ crawls = 0
    /\ observed = NotObserved
    /\ history = <<>>
    /\ location = None
    /\ pdu_name = None
    /\ metric_obj = NoMetric

NextNew == \E address \in Addresses, name \in DisplayNames : New(address, name)

SpecNew == InitNew /\ [][NextNew]_vars

\* Poll cycles of a PDU built at any level, the level changing between polls
InitLevel ==
    /\ device = "B"
    /\ logger_level \in Levels
    /\ heap = Polled.heap
    /\ connectors = Polled.connectors
    /\ poles = Polled.poles
    /\ sensors = Polled.sensors
    /\ debug_null_sensors = PDU_init(logger_level).debug_null_sensors
    /\ pc = "idle"
    /\ sent = <<>>
    /\ reply = Answer(<<>>)
    /\ call = [NoCall EXCEPT !.op = "crawl"]
    /\ prev = NoCall
    /\ diffs = <<>>
    /\ crawls = 1
    /\ observed = NotObserved
    /\ history = <<>>
    /\ Constructed

NextLevel ==
    \/ \E level \in Levels : SetLevel(level)
    \/ \E now \in WallTimes : ReadSensorsSend(now)
    \/ ReadSensorsExcept
    \/ /\ pc = "read_sensors"
       /\ \E responses \in LevelAnswers : ReadSensorsElse(responses)

SpecLevel == InitLevel /\ [][NextLevel]_vars

\* ------------------------------------------------------------------ claims
Returned(op) == pc = "idle" /\ call.op = op

Values(ss) == [i \in DOMAIN ss |-> ss[i].value]

\* read_sensors on the sensor list ss: what the cycle leaves in the sensors
poll(ss, answer, now) ==
    IF ~answer.ok THEN read_sensors_except(clear_sensors(ss, now)).sensors
    ELSE apply_responses(clear_sensors(ss, now), DebugNullSensors,
                         answer.responses).sensors

\* C1: a poll whose transport raises returns normally with every value None,
\* and a poll whose transport works leaves the sensors as the same poll (same
\* answer, same clock reading) leaves them on a PDU that has never polled:
\* failed cycles before it leave no trace
C1_PollFailureRecovered ==
    /\ Returned("read_sensors") /\ ~call.ok =>
           /\ call.exc = None
           /\ \A i \in DOMAIN sensors : sensors[i].value = None
    /\ Returned("read_sensors") /\ call.ok =>
           sensors = poll(Polled.sensors, reply, call.now)

\* a poll that filled sensors right after a poll whose transport raised and
\* that had wiped values
C1_Witness ==
    /\ Returned("read_sensors") /\ call.ok /\ call.exc = None /\ call.filled
    /\ prev.op = "read_sensors" /\ ~prev.ok /\ prev.wiped

\* the sensors after a cycle that drops every sub-response of an unknown id
\* and applies the others (the last one for a position wins)
Dropping(ss, responses, now) ==
    [i \in DOMAIN ss |->
       LET mine == {k \in DOMAIN responses : responses[k].id = IntId(i - 1)}
       IN  IF mine = {} THEN set_value(ss[i], None, now)
           ELSE LET k == CHOOSE k \in mine : \A j \in mine : j <= k
                IN  set_value(ss[i], responses[k].value, responses[k].timestamp)]

\* C2: a sub-response whose id is no position of the sensors is dropped, the
\* others are applied and read_sensors returns normally
C2_UnknownIdDropped ==
    Returned("read_sensors") /\ call.ok =>
        /\ call.exc = None
        /\ sensors = Dropping(sensors, reply.responses, call.now)

\* the answer is a batch for some of the requested sensors, with distinct ids
Requested == {r.id : r \in Range(sent[1])}

Partial(responses) ==
    /\ \A k \in DOMAIN responses : responses[k].id \in Requested
    /\ \A j, k \in DOMAIN responses : responses[j].id = responses[k].id => j = k

Permuted(l) ==
    {[k \in DOMAIN l |-> l[order[k]]] : order \in Orderings(DOMAIN l)}

\* C3: after a poll answered for any subset of the requested sensors in any
\* order, an answered sensor holds the value and timestamp of its response, an
\* unanswered one has value None, and any other order of the batch gives the
\* same sensors
C3_AnswersCorrelatedById ==
    Returned("read_sensors") /\ call.ok /\ Partial(reply.responses) =>
        /\ \A k \in DOMAIN reply.responses :
               LET s == sensors[reply.responses[k].id.v + 1]
               IN  /\ s.value = reply.responses[k].value
                   /\ s.timestamp = reply.responses[k].timestamp
        /\ \A i \in DOMAIN sensors :
               (\A k \in DOMAIN reply.responses : reply.responses[k].id # IntId(i - 1))
                   => sensors[i].value = None
        /\ \A other \in Permuted(reply.responses) :
               poll(sensors, Answer(other), call.now) = sensors

\* two sensors answered in the reverse of the order asked, one with a
\* reading, after a cycle that had filled sensors
C3_Witness ==
    /\ Returned("read_sensors") /\ call.ok /\ Partial(reply.responses)
    /\ Len(reply.responses) = 2
    /\ reply.responses[1].id.v > reply.responses[2].id.v
    /\ reply.responses[1].value # reply.responses[2].value
    /\ call.wiped

\* C9: after clear_sensors every value is None, and a second clear_sensors
\* leaves every value as the first left it
C9_ClearIdempotent ==
    /\ [](Returned("clear_sensors") => \A i \in DOMAIN sensors : sensors[i].value = None)
    /\ [][call.op = "clear_sensors" /\ call'.op = "clear_sensors"
              => Values(sensors') = Values(sensors)]_vars

\* a second clear_sensors in a row, the first of which wiped readings
C9_Witness ==
    Returned("clear_sensors") /\ prev.op = "clear_sensors" /\ prev.wiped

\* C4: a reader concurrent with a poll cycle reads a (value, timestamp) pair
\* that one update wrote together, never the value of one update with the
\* timestamp of another
C4_NoTornRead ==
    observed.sensor # 0 => <<observed.value, observed.timestamp>> \in observed.whole

\* what the device returns to the three enumeration calls
Enumerated == InOrder(Remote(device), connectors_batch)

\* the tag of the enumeration sub-response that returned rid
TagOf(rid) ==
    LET resp == CHOOSE r \in Range(Enumerated) :
                    \E i \in DOMAIN r.ret : r.ret[i].rid = rid
    IN  resp.id

\* every sub-request of the batch carries the position of the connector whose
\* rid it is addressed to
Addressed(batch) ==
    \A k \in DOMAIN batch :
        /\ batch[k].id \in 0 .. Len(connectors) - 1
        /\ heap[connectors[batch[k].id + 1]].rid = batch[k].rid

\* the label the device's settings and metadata give the connector c
Labelled(c) ==
    LET dev == Remote(device)
        name == dev.settings[c.rid].name
    IN  IF truthy(name) /\ name # "''" THEN name
        ELSE IF c.rid \in DOMAIN dev.metadata THEN dev.metadata[c.rid].label
        ELSE Last(c.rid)

\* C5: after connector discovery there is one connector per enumerated rid,
\* typed by the tag of the sub-response that returned it; the metadata and
\* settings batches address each connector by its position in connectors, and
\* each connector ends with the metadata and settings of its own rid
C5_ConnectorsByPosition ==
    (call.op = "crawl" /\ Len(sent) >= 2) =>
        /\ Len(connectors) = FoldSeq(LAMBDA n, r : n + Len(r.ret), 0, Enumerated)
        /\ \A i \in DOMAIN connectors :
               heap[connectors[i]].type = TagOf(heap[connectors[i]].rid)
        /\ Addressed(sent[2])
        /\ Len(sent) >= 3 =>
               /\ Addressed(sent[3])
               /\ \A i \in DOMAIN connectors :
                      /\ \E k \in DOMAIN sent[3] : sent[3][k].id = i - 1
                      /\ heap[connectors[i]].type # "device" =>
                             heap[connectors[i]].label =
                                 Remote(device).metadata[heap[connectors[i]].rid].label
        /\ Len(sent) >= 4 =>
               \A i \in DOMAIN connectors :
                   heap[connectors[i]].custom_label = Labelled(heap[connectors[i]])

\* connectors were discovered with the device slot first and two outlets
\* after it, and both enrichment answers were applied
C5_Witness ==
    /\ call.op = "crawl"
    /\ call.ok
    /\ Len(sent) >= 4
    /\ heap[connectors[1]].type = "device"
    /\ heap[connectors[2]].type = "outlet"
    /\ heap[connectors[3]].type = "outlet"

\* C10: a transport error in an exchange of crawl leaves crawl as an
\* exception: crawl has ended at that exchange, and the batches sent are
\* those up to the failed exchange, each once
C10_CrawlErrorPropagates ==
    (call.op = "crawl" /\ ~call.ok) =>
        /\ pc = "idle"
        /\ call.exc = "TransportError"
        /\ Len(sent) = StepOf(call.at)

\* the transport raised in the sensor enumeration, the fifth exchange
C10_Witness ==
    /\ call.op = "crawl"
    /\ ~call.ok
    /\ call.at = "sensors"
    /\ Len(sent) = 5

\* the connector the updates are applied to
Updated == heap[connectors[1]]

\* C6 for a metadata update and then a settings update of a new connector
Precedence ==
    (Len(history) = 2 /\ history[1].method = "metadata"
                      /\ history[2].method = "settings") =>
        LET label == history[1].kwargs.label
            name == history[2].kwargs.name
        IN  Updated.custom_label =
                IF truthy(name) /\ name # "''" THEN name
                ELSE IF truthy(label) THEN label
                ELSE Last(Updated.rid)

\* C6 for a metadata update that carries a label, whatever came before
MetadataStep ==
    (/\ Len(history') = Len(history) + 1
     /\ Last(history').method = "metadata"
     /\ truthy(Last(history').kwargs.label)) =>
        /\ Updated'.label = Last(history').kwargs.label
        /\ Updated'.custom_label =
               IF Updated.custom_label = Updated.label
               THEN Last(history').kwargs.label ELSE Updated.custom_label

\* C6: after a metadata and then a settings update of a new connector,
\* custom_label is the settings name if that is truthy and not the sentinel,
\* else the metadata label if that is truthy, else the default label; a
\* (truthy) metadata label always becomes label, and becomes custom_label
\* exactly when custom_label equalled the old label
C6_LabelPrecedence == []Precedence /\ [][MetadataStep]_vars

\* a customised connector got a metadata label: label follows, custom_label
\* stays
C6_Witness ==
    /\ Len(history) = 3
    /\ history[1].method = "metadata" /\ history[1].kwargs.label = "Outlet 1"
    /\ history[2].method = "settings" /\ history[2].kwargs.name = "Server Rack A"
    /\ history[3].method = "metadata" /\ history[3].kwargs.label = "Outlet 2"
    /\ Updated.label = "Outlet 2"
    /\ Updated.custom_label = "Server Rack A"

\* the tuple a sensor is entered with in a snapshot
TupleOf(i) == <<parent_label(sensors[i]), sensors[i].name, None>>

\* C7: the entries reported in a diagnostic cycle are the tuples of its
\* snapshot absent from the snapshot of the preceding successful cycle, which
\* the new snapshot replaces; a sensor null in two consecutive cycles is not
\* reported in the second, and a sensor null, then not null, then null again
\* is reported in the third cycle
C7_NewlyNullReported ==
    (pc = "idle" /\ call.op = "read_sensors" /\ call.ok /\ call.exc = None
                 /\ Len(history) >= 2) =>
        LET n == Len(history)
        IN  /\ Range(diffs) = history[n].snapshot \ history[n - 1].snapshot
            /\ Range(debug_null_sensors.sensors) = history[n].snapshot
            /\ \A i \in history[n].nulls \cap history[n - 1].nulls :
                   TupleOf(i) \notin Range(diffs)
            /\ n = 3 =>
                   \A i \in history[3].nulls \cap history[2].filled \cap history[1].nulls :
                       TupleOf(i) \in Range(diffs)

\* C8: A.diff(B) holds exactly the tuples of B that are not in A, each once;
\* A.diff(A) is empty; A is the same snapshot afterwards
C8_DiffIsSetDifference ==
    history # <<>> =>
        LET A == history[1].self
            B == history[1].new
        IN  /\ Range(diffs) = Range(B.sensors) \ Range(A.sensors)
            /\ Len(diffs) = Cardinality(Range(B.sensors) \ Range(A.sensors))
            /\ A = B => diffs = <<>>
            /\ debug_null_sensors = A

\* B is A and one more tuple, entered twice: the diff is that tuple, once
C8_Witness ==
    /\ history # <<>>
    /\ history[1].self.sensors = <<<<"Outlet 1", "current", None>>>>
    /\ history[1].new.sensors =
           <<<<"Outlet 2", "voltage", None>>, <<"Outlet 2", "voltage", None>>>>
    /\ diffs = <<<<"Outlet 2", "voltage", None>>>>

\* C11: a Metric's name, unit and interface are the longname, unit and
\* interface of the first sensor added, whatever is added later, and its
\* sensors are the sensors added, in the order added
C11_MetricOfFirstSensor ==
    history # <<>> =>
        /\ metric_obj.name = history[1].longname
        /\ metric_obj.unit = history[1].unit
        /\ metric_obj.interface = history[1].interface
        /\ metric_obj.sensors = history

\* what one crawl of the device discovers
Once == crawl_in_order(Remote(device), NewPDU)

\* the entries of connectors, poles and sensors for one remote object
ConnectorsOf(rid) == {i \in DOMAIN connectors : heap[connectors[i]].rid = rid}

PolesOf(rid, line) ==
    {i \in DOMAIN poles : heap[poles[i].inlet].rid = rid /\ poles[i].line = line}

SensorsOf(rid) == {i \in DOMAIN sensors : sensors[i].rid = rid}

\* every pole and sensor of the device has n entries, and there are no others
Entries(n) ==
    /\ Len(poles) = n * Len(Once.poles)
    /\ Len(sensors) = n * Len(Once.sensors)
    /\ \A i \in DOMAIN Once.poles :
           Cardinality(PolesOf(Once.heap[Once.poles[i].inlet].rid,
                               Once.poles[i].line)) = n
    /\ \A i \in DOMAIN Once.sensors :
           Cardinality(SensorsOf(Once.sensors[i].rid)) = n

\* every connector of the device has n entries, and there are no others
ConnectorEntries(n) ==
    /\ Len(connectors) = n * Len(Once.connectors)
    /\ \A i \in DOMAIN Once.connectors :
           Cardinality(ConnectorsOf(Once.heap[Once.connectors[i]].rid)) = n

\* the n-th crawl has returned, and it is the second of two that worked
Crawled(n) ==
    /\ crawls = n
    /\ pc = "idle"
    /\ call.op = "crawl" /\ call.ok
    /\ n = 2 => prev.op = "crawl" /\ prev.ok

\* C12 as amended: a second crawl of the same PDU object doubles poles and
\* sensors (two entries for every remote pole and sensor), while connectors
\* is built anew and holds one entry for every remote connector
C12_RecrawlDoublesPolesAndSensors ==
    /\ Crawled(1) => Entries(1) /\ ConnectorEntries(1)
    /\ Crawled(2) => Entries(2) /\ ConnectorEntries(1)

\* a second crawl has returned after a first that worked
C12_Witness == Crawled(2) /\ Len(sensors) = 4 /\ Len(poles) = 2

\* C12 as stated: after the second crawl connectors, poles and sensors each
\* hold two entries for every remote object
C12_RecrawlDoublesAll ==
    /\ Crawled(1) => Entries(1) /\ ConnectorEntries(1)
    /\ Crawled(2) => Entries(2) /\ ConnectorEntries(2)

\* the positions of the sensors that are not state sensors
NonState == {i \in DOMAIN sensors : sensors[i].interface \notin SENSORS_STATE}

\* the positions of the sensors that have a longname
Named == {i \in DOMAIN sensors : sensors[i].longname # None}

\* C13: the sensor-metadata batch holds one getMetaData sub-request, tagged
\* with the sensor's position, for exactly the sensors that are not state
\* sensors; longname is None until a metadata response is applied, so after a
\* completed crawl the sensors with a longname are the non-state sensors
\* whose response arrived
C13_MetadataForNonStateSensors ==
    /\ Len(sent) >= 6 =>
           /\ Len(sent[6]) = Cardinality(NonState)
           /\ {sent[6][k].id + 1 : k \in DOMAIN sent[6]} = NonState
           /\ \A k \in DOMAIN sent[6] :
                  /\ sent[6][k].method = "getMetaData"
                  /\ sent[6][k].rid = sensors[sent[6][k].id + 1].rid
    /\ pc # "idle" => Named = {}
    /\ (pc = "idle" /\ history # <<>>) =>
           /\ Named = {id + 1 : id \in history[1].arrived}
           /\ Named \subseteq NonState

\* a crawl has returned in which the metadata of one of the three non-state
\* sensors did not arrive; the PDU has a state sensor too
C13_Witness ==
    /\ pc = "idle"
    /\ history # <<>>
    /\ Cardinality(history[1].arrived) = 2
    /\ Cardinality(NonState) = 3
    /\ Cardinality(Named) = 2
    /\ Len(sensors) = 4

\* the positions of the sensors read_sensors asks for
Listed ==
    {i \in DOMAIN sensors :
        sensors[i].interface \in SENSORS_NUMERIC \cup SENSORS_STATE}

\* the batch of the poll holds one sub-request per listed sensor and no other
BatchOfListed(batch) ==
    /\ Len(batch) = Cardinality(Listed)
    /\ {batch[k].id.v + 1 : k \in DOMAIN batch} = Listed
    /\ \A k \in DOMAIN batch :
           /\ batch[k].id.t = "int"
           /\ batch[k].rid = sensors[batch[k].id.v + 1].rid
           /\ batch[k].method =
                  IF sensors[batch[k].id.v + 1].interface \in SENSORS_NUMERIC
                  THEN "getReading" ELSE "getState"
    /\ \A j, k \in DOMAIN batch : batch[j].id = batch[k].id => j = k

\* C14: the batch of read_sensors holds exactly one sub-request, getReading
\* or getState, for every sensor of a numeric or state interface, tagged with
\* its position, the tags are pairwise distinct, and a sensor left out of the
\* batch has value None after the cycle
C14_BatchOfListedSensors ==
    (call.op = "read_sensors" /\ sent # <<>>) =>
        /\ BatchOfListed(sent[1])
        /\ (pc = "idle" /\ call.exc = None) =>
               \A i \in DOMAIN sensors \ Listed : sensors[i].value = None

\* the snake_case form of the names, metrics and units of the tables
Snake(str) ==
    CASE str = "activePower" -> "active_power"
      [] str = "outletState" -> "outlet_state"
      [] OTHER -> str

\* C15: after Sensor.update, longname is "raritan_sensors_" and the snake_case
\* form of the name, followed by "_in_" and the snake_case form of the unit
\* exactly when the unit is not "none"; a sensor created without a name has
\* its decoded metric as name; "activePower" in "watt" gives
\* "raritan_sensors_active_power_in_watt"
C15_LongnameOfNameAndUnit ==
    history # <<>> =>
        LET s == sensors[1]
            first == history[1]
            last == Last(history)
        IN  /\ s.metric = SENSORS_TYPES[last.codes.type]
            /\ s.unit = SENSORS_UNITS[last.codes.unit]
            /\ s.name = IF first.name = None THEN SENSORS_TYPES[first.codes.type]
                        ELSE first.name
            /\ s.longname =
                   IF s.unit = "none" THEN "raritan_sensors_" \o Snake(s.name)
                   ELSE "raritan_sensors_" \o Snake(s.name) \o "_in_" \o Snake(s.unit)
            /\ (s.name = "activePower" /\ s.unit = "watt") =>
                   s.longname = "raritan_sensors_active_power_in_watt"

\* a sensor created without a name got the metadata of an active power
\* sensor in watt
C15_Witness ==
    /\ Len(history) = 1
    /\ history[1].name = None
    /\ sensors[1].name = "activePower"
    /\ sensors[1].unit = "watt"
    /\ sensors[1].longname = "raritan_sensors_active_power_in_watt"

\* the scheme an address carries ("" if it omits it) and its host
SchemeOf(address) ==
    CASE address = "http://pdu1" -> "http"
      [] address = "https://pdu1" -> "https"
      [] OTHER -> ""

HostOf(address) == "pdu1"

\* C16: a PDU constructed with an address that omits the scheme has a location
\* with scheme http, one constructed with an address that carries a scheme
\* keeps it, and one constructed without a display name is named after the
\* host of the address
C16_SchemeDefaultsToHttp ==
    history # <<>> =>
        LET address == Last(history).address
            name == Last(history).name
        IN  /\ location = (IF SchemeOf(address) = "" THEN "http"
                           ELSE SchemeOf(address)) \o "://" \o HostOf(address)
            /\ name = None => pdu_name = HostOf(address)

\* the sensors without what a reading sets
Unread(ss) == [i \in DOMAIN ss |-> [ss[i] EXCEPT !.value = None, !.timestamp = None]]

\* C17: whatever polls there were, failed or not, connectors, poles and
\* sensors hold the same objects in the same order as after crawl, and every
\* sensor differs from what it was after crawl in value and timestamp at most
C17_PollKeepsGraph ==
    /\ heap = Polled.heap
    /\ connectors = Polled.connectors
    /\ poles = Polled.poles
    /\ Unread(sensors) = Polled.sensors

\* a poll has set values after a poll whose transport failed
C17_Witness ==
    /\ Returned("read_sensors") /\ call.ok /\ call.filled
    /\ prev.op = "read_sensors" /\ ~prev.ok

\* C18: whether the diagnostics are active or not, and whatever the logger's
\* level was when the PDU was built, a cycle ends with the values and
\* timestamps the same cycle gives with the diagnostics off, and read_sensors
\* returns normally
C18_DiagnosticsChangeNothing ==
    Returned("read_sensors") =>
        /\ call.exc = None
        /\ sensors = poll(Polled.sensors, reply, call.now)

\* the sensors answered null in the last diagnostic cycle and not in the one
\* before it
NewlyNull ==
    LET n == Len(history)
    IN  history[n].nulls \ (IF n > 1 THEN history[n - 1].nulls ELSE {})

\* C19: in a diagnostic cycle every sensor that is null now and was not null
\* in the previous cycle gives an entry of its own: distinct sensors have
\* distinct tuples, and as many entries are reported as there are such sensors
C19_OneEntryPerNewlyNullSensor ==
    (pc = "idle" /\ call.op = "read_sensors" /\ call.ok /\ call.exc = None
                 /\ history # <<>>) =>
        /\ \A i, j \in NewlyNull : i # j => TupleOf(i) # TupleOf(j)
        /\ Len(diffs) = Cardinality(NewlyNull)

\* the getPoles sub-requests that were sent
PolesBatch == IF Len(sent) >= 4 THEN Range(sent[4]) ELSE {}

\* the pole records the remote PDU returns to the sub-request req
RecordsOf(req) == Range(device_ret(Remote(device), req))

\* the sub-requests that returned the record the pole at position i of
\* self.poles was built from (a nodeId names one record of the remote PDU)
RequestsOf(i) ==
    {req \in PolesBatch : \E rec \in RecordsOf(req) : rec.nodeId = poles[i].node_id}

\* the record the pole at position i was built from
RecordOf(i) ==
    CHOOSE rec \in UNION {RecordsOf(req) : req \in PolesBatch} :
        rec.nodeId = poles[i].node_id

\* the metrics of a pole record whose descriptor is not null
MetricsOf(rec) == {m \in Range(rec.keys) \ non_metrics : ~rec.data[m].none}

\* the positions of the sensors whose parent is the pole at position i
SensorsOfPole(i) == {j \in DOMAIN sensors : sensors[j].parent = PoleRef(i)}

\* pole discovery has been applied
PolesDiscovered == Len(sent) >= 5

\* C20: after pole discovery, whatever the order of the getPoles responses
\* and of the connectors, every pole's inlet is one of self.connectors, has
\* type inlet and is the connector the sub-request that returned the pole's
\* record was addressed to; every non-null descriptor of a pole record gave
\* one sensor whose parent is the pole built from that record
C20_PolesOfTheirInlets ==
    PolesDiscovered =>
        /\ Len(poles) = Cardinality(UNION {RecordsOf(req) : req \in PolesBatch})
        /\ \A i \in DOMAIN poles :
               /\ poles[i].inlet \in Range(connectors)
               /\ heap[poles[i].inlet].type = "inlet"
               /\ RequestsOf(i) # {}
               /\ \A req \in RequestsOf(i) : heap[poles[i].inlet].rid = req.rid
               /\ {sensors[j].name : j \in SensorsOfPole(i)} = MetricsOf(RecordOf(i))
               /\ Cardinality(SensorsOfPole(i)) = Cardinality(MetricsOf(RecordOf(i)))
               /\ \A j \in SensorsOfPole(i) :
                      /\ sensors[j].rid = RecordOf(i).data[sensors[j].name].rid
                      /\ sensors[j].interface = RecordOf(i).data[sensors[j].name].type

\* a crawl has returned in which an outlet precedes the inlets in
\* self.connectors and the poles of the second inlet were answered before
\* those of the first, which has two poles
C20_Witness ==
    /\ pc = "idle"
    /\ call.exc = None
    /\ PolesDiscovered
    /\ heap[connectors[1]].type = "outlet"
    /\ heap[connectors[2]].type = "device"
    /\ Len(poles) = 3
    /\ heap[poles[1].inlet].rid = I2
    /\ heap[poles[2].inlet].rid = I1
    /\ heap[poles[3].inlet].rid = I1
    /\ sent[4][1].rid = I1
    /\ Cardinality(SensorsOfPole(2)) = 2
    /\ \E j \in DOMAIN sensors :
           sensors[j].name = "voltage" /\ sensors[j].parent.kind = "connector"

====
